---- MODULE Spec2Model ----
(***************************************************************************)
(* Model of two VLC plugin fragments:                                      *)
(*   modules/text_renderer/freetype/fonts/fontconfig.c                     *)
(*   modules/video_output/wayland/vulkan.c                                 *)
(*                                                                         *)
(* Four specifications share the module, one per group of operations:      *)
(*   SpecRef  FontConfig_Prepare / FontConfig_Unprepare (lock, refs,       *)
(*            config), run by concurrent clients on either build           *)
(*   SpecSel  FontConfig_SelectAmongFamilies (family_map, patterns)        *)
(*   SpecFb   FontConfig_GetFallbacksAmongFamilies (fallback_map)          *)
(*   SpecVk   InitPlatform of the Vulkan/Wayland shim                      *)
(***************************************************************************)
EXTENDS Integers, Sequences, FiniteSets, TLC

(***************************************************************************)
(* Bounds of the model.                                                    *)
(***************************************************************************)
NumClients == 3
MaxCalls == 4
MaxSelCalls == 2
MaxFonts == 2
MaxFontSet == 3
NumVk == 3

(***************************************************************************)
(* Values of the program.                                                  *)
(***************************************************************************)
NULL == 0
VLC_SUCCESS == "VLC_SUCCESS"
VLC_EGENERIC == "VLC_EGENERIC"
VLC_ENOMEM == "VLC_ENOMEM"
NoRet == "none"

Clients == 1 .. NumClients
Unlocked == 0

VARIABLES
    \* ---- fontconfig.c: static state (lines 48-50) and its callers
    win32,        \* the build: TRUE when _WIN32 is defined (line 66)
    config,       \* static FcConfig *config: NULL or a handle 1, 2, ...
    refs,         \* static uintptr_t refs
    lock,         \* static vlc_mutex_t lock: Unlocked or the owning client
    pc,           \* per client: where it is in Prepare / Unprepare
    ret,          \* per client: what its last FontConfig_Prepare returned
    found,        \* per client: the value of refs its last refs++ read
    didLoad,      \* per client: its current/last Prepare ran the load
    assertFailed, \* assert( refs > 0 ) of Unprepare has failed
    nHandles,     \* handles FcInitLoad* has returned so far
    destroyed,    \* per handle: how often FcConfigDestroy got it
    nCalls,       \* FontConfig_Prepare calls started
    loadsSince,   \* load attempts since the last FcConfigDestroy (or start)
    okLoadsSince, \* loads that gave a handle since the last FcConfigDestroy
    \* ---- fontconfig.c: FontConfig_SelectAmongFamilies and the registry of fs
    family_map,   \* fs->family_map: the dictionary's entries [key, value]
    p_families,   \* fs->p_families: the family records, in list order
    sel_pc,       \* "idle", "loop", "returned" or "crashed"
    sel_i,        \* the loop counter i of line 114
    p_family,     \* the local p_family: NULL or the position of a record
    sel_ret,      \* the value the last call returned
    pp_result,    \* *pp_result of the last call
    pats,         \* FcPatternDestroy calls on pat, p_pat of the last pass, if obtained
    nSelCalls,    \* calls started
    selLookup,    \* the call's dictionary lookup: "none", "hit" or "miss"
    selLenAtBegin,\* Len(p_families) when the call began
    selFirst,     \* the family name read when p_family was determined
    selAdded,     \* the NewFont calls of this call that added a record
    \* ---- fontconfig.c: FontConfig_GetFallbacksAmongFamilies
    fallback_map, \* fs->fallback_map: the dictionary's entries [key, value]
    fb_key,       \* families->psz_key of the last call
    fb_ret,       \* the value the last call returned
    fb_result,    \* *pp_result: the family list handed back (<< >> is NULL)
    fb_allocs,    \* family records the last call allocated
    fb_frees,     \* family records the last call gave to FreeFamilies
    \* ---- vulkan.c: the vlc_vk_t objects InitPlatform is called on
    vk_window_type,  \* vk->window->type
    vk_platform_ext, \* vk->platform_ext
    vk_ops,          \* vk->ops
    vk_ret           \* what InitPlatform returned for the object

refVars == << win32, config, refs, lock, pc, ret, found, didLoad, assertFailed,
              nHandles, destroyed, nCalls, loadsSince, okLoadsSince >>

selVars == << family_map, p_families, sel_pc, sel_i, p_family, sel_ret,
              pp_result, pats, nSelCalls, selLookup, selLenAtBegin, selFirst,
              selAdded >>

fbVars == << fallback_map, fb_key, fb_ret, fb_result, fb_allocs, fb_frees >>

vkVars == << vk_window_type, vk_platform_ext, vk_ops, vk_ret >>

vars == << refVars, selVars, fbVars, vkVars >>


(***************************************************************************)
(* FontConfig_Prepare, lines 52-96.                                        *)
(***************************************************************************)

\* vlc_mutex_lock( &lock ), line 56: the caller blocks until the mutex is
\* free.  A caller that already owns a non-recursive mutex never gets it.
Prepare_Lock(c) ==
    /\ pc[c] = "idle"
    /\ nCalls < MaxCalls
    /\ lock = Unlocked
    /\ lock' = c
    /\ pc' = [pc EXCEPT ![c] = "p_check"]
    /\ ret' = [ret EXCEPT ![c] = NoRet]
    /\ didLoad' = [didLoad EXCEPT ![c] = FALSE]
    /\ nCalls' = nCalls + 1
    /\ UNCHANGED << win32, config, refs, found, assertFailed, nHandles,
                    destroyed, loadsSince, okLoadsSince >>
    /\ UNCHANGED << selVars, fbVars, vkVars >>

\* Prepare_Check with the test written refs++ > 1.
Prepare_Check_OffByOne(c) ==
    /\ pc[c] = "p_check"
    /\ found' = [found EXCEPT ![c] = refs]
    /\ refs' = refs + 1
    /\ IF refs > 1
       THEN /\ lock' = Unlocked
            /\ ret' = [ret EXCEPT ![c] = VLC_SUCCESS]
            /\ pc' = [pc EXCEPT ![c] = "held"]
       ELSE /\ pc' = [pc EXCEPT ![c] = "p_load"]
            /\ UNCHANGED << lock, ret >>
    /\ UNCHANGED << win32, config, didLoad, assertFailed, nHandles, destroyed,
                    nCalls, loadsSince, okLoadsSince >>
    /\ UNCHANGED << selVars, fbVars, vkVars >>

\* if( refs++ > 0 ) { unlock; return VLC_SUCCESS; }, lines 57-61.
Prepare_Check(c) ==
    /\ pc[c] = "p_check"
    /\ found' = [found EXCEPT ![c] = refs]
    /\ refs' = refs + 1
    /\ IF refs > 0
       THEN /\ lock' = Unlocked
            /\ ret' = [ret EXCEPT ![c] = VLC_SUCCESS]
            /\ pc' = [pc EXCEPT ![c] = "held"]
       ELSE /\ pc' = [pc EXCEPT ![c] = "p_load"]
            /\ UNCHANGED << lock, ret >>
    /\ UNCHANGED << win32, config, didLoad, assertFailed, nHandles, destroyed,
                    nCalls, loadsSince, okLoadsSince >>
    /\ UNCHANGED << selVars, fbVars, vkVars >>

\* The outcomes of FcInitLoadConfigAndFonts() / FcInitLoadConfig(): NULL or
\* a fresh configuration handle.
FcInitLoad == { NULL, nHandles + 1 }

\* #ifndef _WIN32 branch, lines 67-69, then vlc_mutex_unlock, line 92.
Prepare_Load_Posix(c) ==
    /\ pc[c] = "p_load"
    /\ ~win32
    /\ \E h \in FcInitLoad :
        /\ config' = h
        /\ refs' = IF h = NULL THEN 0 ELSE refs
        /\ nHandles' = IF h = NULL THEN nHandles ELSE nHandles + 1
        /\ okLoadsSince' = IF h = NULL THEN okLoadsSince ELSE okLoadsSince + 1
    /\ loadsSince' = loadsSince + 1
    /\ didLoad' = [didLoad EXCEPT ![c] = TRUE]
    /\ lock' = Unlocked
    /\ pc' = [pc EXCEPT ![c] = "p_ret"]
    /\ UNCHANGED << win32, ret, found, assertFailed, destroyed, nCalls >>
    /\ UNCHANGED << selVars, fbVars, vkVars >>

\* #else branch, lines 72-88: FcInitLoadConfig, then FcConfigBuildFonts; when
\* that returns FcFalse the function returns VLC_ENOMEM at line 85, before
\* the vlc_mutex_unlock of line 92.  refs is not reset on this branch.
Prepare_Load_Win32(c) ==
    /\ pc[c] = "p_load"
    /\ win32
    /\ \E h \in FcInitLoad, built \in BOOLEAN :
        /\ config' = h
        /\ nHandles' = IF h = NULL THEN nHandles ELSE nHandles + 1
        /\ okLoadsSince' = IF h = NULL THEN okLoadsSince ELSE okLoadsSince + 1
        /\ IF built
           THEN /\ lock' = Unlocked
                /\ pc' = [pc EXCEPT ![c] = "p_ret"]
                /\ ret' = ret
           ELSE /\ lock' = lock
                /\ pc' = [pc EXCEPT ![c] = "idle"]
                /\ ret' = [ret EXCEPT ![c] = VLC_ENOMEM]
    /\ loadsSince' = loadsSince + 1
    /\ didLoad' = [didLoad EXCEPT ![c] = TRUE]
    /\ UNCHANGED << win32, refs, found, assertFailed, destroyed, nCalls >>
    /\ UNCHANGED << selVars, fbVars, vkVars >>

\* return (config != NULL) ? VLC_SUCCESS : VLC_EGENERIC, line 95: config is
\* read after the mutex was released at line 92.
Prepare_Return(c) ==
    /\ pc[c] = "p_ret"
    /\ IF config # NULL
       THEN /\ ret' = [ret EXCEPT ![c] = VLC_SUCCESS]
            /\ pc' = [pc EXCEPT ![c] = "held"]
       ELSE /\ ret' = [ret EXCEPT ![c] = VLC_EGENERIC]
            /\ pc' = [pc EXCEPT ![c] = "idle"]
    /\ UNCHANGED << win32, config, refs, lock, found, didLoad, assertFailed,
                    nHandles, destroyed, nCalls, loadsSince, okLoadsSince >>
    /\ UNCHANGED << selVars, fbVars, vkVars >>

(***************************************************************************)
(* FontConfig_Unprepare, lines 98-107.  A client calls it only after its   *)
(* own FontConfig_Prepare returned VLC_SUCCESS, and once.                  *)
(***************************************************************************)

\* vlc_mutex_lock( &lock ), line 101.
Unprepare_Lock(c) ==
    /\ pc[c] = "held"
    /\ lock = Unlocked
    /\ lock' = c
    /\ pc' = [pc EXCEPT ![c] = "u_body"]
    /\ UNCHANGED << win32, config, refs, ret, found, didLoad, assertFailed,
                    nHandles, destroyed, nCalls, loadsSince, okLoadsSince >>
    /\ UNCHANGED << selVars, fbVars, vkVars >>

\* assert( refs > 0 ); if( --refs == 0 ) FcConfigDestroy( config ); unlock;
\* lines 102-106.  A failed assertion aborts the process.
Unprepare_Body(c) ==
    /\ pc[c] = "u_body"
    /\ ~assertFailed
    /\ IF refs = 0
       THEN /\ assertFailed' = TRUE
            /\ UNCHANGED << refs, lock, pc, destroyed, loadsSince, okLoadsSince >>
       ELSE /\ refs' = refs - 1
            /\ IF refs - 1 = 0
               THEN /\ destroyed' = IF config = NULL THEN destroyed
                                    ELSE [destroyed EXCEPT ![config] = @ + 1]
                    /\ loadsSince' = 0
                    /\ okLoadsSince' = 0
               ELSE UNCHANGED << destroyed, loadsSince, okLoadsSince >>
            /\ lock' = Unlocked
            /\ pc' = [pc EXCEPT ![c] = "idle"]
            /\ UNCHANGED assertFailed
    /\ UNCHANGED << win32, config, ret, found, didLoad, nHandles, nCalls >>
    /\ UNCHANGED << selVars, fbVars, vkVars >>

RefInit ==
    /\ win32 \in BOOLEAN
    /\ config = NULL
    /\ refs = 0
    /\ lock = Unlocked
    /\ pc = [c \in Clients |-> "idle"]
    /\ ret = [c \in Clients |-> NoRet]
    /\ found = [c \in Clients |-> 0]
    /\ didLoad = [c \in Clients |-> FALSE]
    /\ assertFailed = FALSE
    /\ nHandles = 0
    /\ destroyed = [h \in 1 .. MaxCalls |-> 0]
    /\ nCalls = 0
    /\ loadsSince = 0
    /\ okLoadsSince = 0

RefNext ==
    \E c \in Clients :
        \/ Prepare_Lock(c)
        \/ Prepare_Check(c)
        \/ Prepare_Load_Posix(c)
        \/ Prepare_Load_Win32(c)
        \/ Prepare_Return(c)
        \/ Unprepare_Lock(c)
        \/ Unprepare_Body(c)


(***************************************************************************)
(* FontConfig_SelectAmongFamilies, lines 109-201.                          *)
(***************************************************************************)

NumCombos == 4

\* Family names are strings over a small alphabet with both cases.
Lower(ch) == CASE ch = "A" -> "a" [] ch = "B" -> "b" [] OTHER -> ch

\* LowercaseDup: a copy of the string with every character lowercased.
LowercaseDup(s) == [k \in DOMAIN s |-> Lower(s[k])]

\* The family names installed fonts carry.
Names == { << "A" >>, << "a" >>, << "B" >> }
NoName == << >>

\* What FcFontMatch hands back (lines 147-149): no match, or a pattern whose
\* FC_FAMILY, FC_OUTLINE and FC_FILE may each be present or not.  The file
\* of a matched font is a file of the family the pattern names.
NoMatch == [matched |-> FALSE, family |-> NoName, outline |-> FALSE, hasFile |-> FALSE]
MatchResults ==
    { NoMatch } \cup
    [matched : { TRUE }, family : Names \cup { NoName }, outline : BOOLEAN,
     hasFile : BOOLEAN]

\* The family lists a caller passes; they reach the matcher only.
FamilyLists == { << << "a" >> >>, << << "b" >> >>, << << "a" >>, << "b" >> >> }

\* vlc_dictionary_value_for_key: the value of the latest entry under the
\* key, kVLCDictionaryNotFound (NULL) when there is none.
DictValueForKey(dict, key) ==
    LET hits == { e \in dict : e.key = key }
    IN IF hits = {} THEN NULL
       ELSE (CHOOSE e \in hits : \A o \in hits : o.value <= e.value).value

\* NewFamily( fs, psz_family, pp_list, p_dict, psz_key ): a record named by
\* the lowercased family name, appended to the list.
NewFamilyRecord(psz_family) == [psz_name |-> LowercaseDup(psz_family), fonts |-> << >>]

\* NewFont( psz_fontfile, i_index, b_bold, b_italic, p_family ): a font
\* record appended to the family's fonts.
NewFont(families, fam, psz_fontfile, b_bold, b_italic) ==
    [families EXCEPT ![fam].fonts =
        Append(@, [psz_fontfile |-> psz_fontfile, b_bold |-> b_bold,
                   b_italic |-> b_italic])]

TotalFonts(families) ==
    LET RECURSIVE Sum(_)
        Sum(k) == IF k = 0 THEN 0 ELSE Len(families[k].fonts) + Sum(k - 1)
    IN Sum(Len(families))

\* The key computed at line 159 from the matched family name.
SelKey_Raw(val_s) == val_s

SelKey(val_s) == LowercaseDup(val_s)

\* if( !p_family ), line 157: with a family already chosen, always true.
NeedsFamily_Always(fam) == TRUE

NeedsFamily(fam) == fam = NULL

\* Entry: vlc_family_t *p_family = NULL, line 112.
Sel_Begin ==
    /\ sel_pc \in { "idle", "returned" }
    /\ nSelCalls < MaxSelCalls
    /\ \E families \in FamilyLists : Len(families) > 0
    /\ sel_pc' = "loop"
    /\ sel_i' = 0
    /\ p_family' = NULL
    /\ sel_ret' = NoRet
    /\ pp_result' = NULL
    /\ pats' = << >>
    /\ nSelCalls' = nSelCalls + 1
    /\ selLookup' = "none"
    /\ selLenAtBegin' = Len(p_families)
    /\ selFirst' = NoName
    /\ selAdded' = << >>
    /\ UNCHANGED << family_map, p_families >>
    /\ UNCHANGED << refVars, fbVars, vkVars >>

\* continue: the next combination, with the registry and p_family as they are.
Sel_Continue(newPats) ==
    /\ sel_i' = sel_i + 1
    /\ pats' = newPats
    /\ UNCHANGED << family_map, p_families, sel_pc, p_family, sel_ret,
                    pp_result, nSelCalls, selLookup, selLenAtBegin, selFirst,
                    selAdded >>

\* Lines 175-196, once p_family is fam: the outline check, the file, NewFont.
\* pats1 holds pat destroyed and p_pat (the last) not yet.
Sel_Register(m, fam, families, pats1, fontOk) ==
    LET b_bold == (sel_i % 2) = 1
        b_italic == ((sel_i \div 2) % 2) = 1
        q == Len(pats1)
        pats2 == [pats1 EXCEPT ![q] = @ + 1]
        adds == m.outline /\ m.hasFile /\ fontOk /\ TotalFonts(families) < MaxFonts
    IN /\ sel_i' = sel_i + 1
       /\ pats' = pats2
       /\ p_family' = fam
       /\ p_families' = IF adds
                        THEN NewFont(families, fam, [of |-> m.family], b_bold, b_italic)
                        ELSE families
       /\ selAdded' = IF adds
                      THEN Append(selAdded, [combo |-> sel_i, to |-> fam,
                                             b_bold |-> b_bold, b_italic |-> b_italic])
                      ELSE selAdded
       /\ UNCHANGED << sel_pc, sel_ret, pp_result, nSelCalls, selLenAtBegin >>

\* Lines 157-173 and on, for a matched pattern m that names a family.
\* patsC holds pat (at position p) destroyed and p_pat obtained.
Sel_Family(m, p, patsC) ==
    LET key == SelKey(m.family)
        hit == DictValueForKey(family_map, key)
    IN  IF ~NeedsFamily(p_family)
        THEN /\ \E fontOk \in BOOLEAN :
                    Sel_Register(m, p_family, p_families, patsC, fontOk)
             /\ UNCHANGED << family_map, selLookup, selFirst >>
        ELSE IF hit # NULL                                    \* lines 160-161
        THEN /\ \E fontOk \in BOOLEAN :
                    Sel_Register(m, hit, p_families, patsC, fontOk)
             /\ selLookup' = "hit"
             /\ selFirst' = m.family
             /\ UNCHANGED family_map
        ELSE \E famOk \in BOOLEAN :
            IF famOk                                          \* lines 163-164
            THEN LET grown == Append(p_families, NewFamilyRecord(key))
                 IN /\ \E fontOk \in BOOLEAN :
                          Sel_Register(m, Len(grown), grown, patsC, fontOk)
                    /\ family_map' = family_map \cup
                                       { [key |-> key, value |-> Len(grown)] }
                    /\ selLookup' = "miss"
                    /\ selFirst' = m.family
            ELSE \* lines 165-170: FcPatternDestroy( pat ) on the pattern
                 \* line 148 destroyed already, p_pat not destroyed; the
                 \* second destroy is a use after free, which may crash.
                 \E crash \in BOOLEAN :
                 /\ pats' = [patsC EXCEPT ![p] = 2]
                 /\ sel_pc' = IF crash THEN "crashed" ELSE "returned"
                 /\ sel_ret' = IF crash THEN sel_ret ELSE VLC_ENOMEM
                 /\ selLookup' = "miss"
                 /\ selFirst' = m.family
                 /\ UNCHANGED << family_map, p_families, sel_i, p_family,
                                 pp_result, nSelCalls, selLenAtBegin, selAdded >>

\* One pass of the loop body, lines 116-196.
Sel_Iter ==
    /\ sel_pc = "loop"
    /\ sel_i < NumCombos
    /\ LET p == 1
           patsA == << 0 >>                              \* pat obtained
           patsB == [patsA EXCEPT ![p] = 1]              \* pat destroyed
           patsC == Append(patsB, 0)                     \* p_pat obtained
           patsD == [patsC EXCEPT ![p + 1] = 1]          \* p_pat destroyed
       IN \/ Sel_Continue(<< >>)     \* FcPatternCreate gave NULL, line 128
          \/ Sel_Continue(patsB)      \* FcConfigSubstitute failed, lines 140-144
          \/ \E m \in MatchResults :
                IF ~m.matched THEN Sel_Continue(patsB)          \* lines 147-149
                ELSE IF m.family = NoName THEN Sel_Continue(patsD) \* lines 151-155
                ELSE Sel_Family(m, p, patsC)
    /\ UNCHANGED << refVars, fbVars, vkVars >>

\* *pp_result = p_family; return VLC_SUCCESS; lines 199-200.
Sel_Return ==
    /\ sel_pc = "loop"
    /\ sel_i = NumCombos
    /\ pp_result' = p_family
    /\ sel_ret' = VLC_SUCCESS
    /\ sel_pc' = "returned"
    /\ UNCHANGED << family_map, p_families, sel_i, p_family, pats, nSelCalls,
                    selLookup, selLenAtBegin, selFirst, selAdded >>
    /\ UNCHANGED << refVars, fbVars, vkVars >>

SelInit ==
    /\ family_map = {}
    /\ p_families = << >>
    /\ sel_pc = "idle"
    /\ sel_i = 0
    /\ p_family = NULL
    /\ sel_ret = NoRet
    /\ pp_result = NULL
    /\ pats = << >>
    /\ nSelCalls = 0
    /\ selLookup = "none"
    /\ selLenAtBegin = 0
    /\ selFirst = NoName
    /\ selAdded = << >>

SelNext == Sel_Begin \/ Sel_Iter \/ Sel_Return

(***************************************************************************)
(* FontConfig_GetFallbacksAmongFamilies, lines 215-281.                    *)
(***************************************************************************)

\* The keys (families->psz_key) callers ask fallbacks for.
FbKeys == { "sans", "serif" }

\* The font sets FcFontSort may return: the family names of its fonts, in
\* the order of the sort.
RECURSIVE SeqsUpTo(_, _)
SeqsUpTo(S, n) ==
    IF n = 0 THEN { << >> }
    ELSE LET shorter == SeqsUpTo(S, n - 1)
         IN shorter \cup { Append(q, x) : q \in { r \in shorter : Len(r) = n - 1 }, x \in S }

FontSets == SeqsUpTo(Names, MaxFontSet)

\* strcasecmp( a, b ) != 0, line 254.
StrCaseDiffers(a, b) == LowercaseDup(a) # LowercaseDup(b)

\* The loop of lines 247-270 from font i on.  list is p_family so far, last
\* is psz_last_name, allocs counts NewFamilyFromMixedCase calls that gave a
\* record, failAt is the call (counted from 1) whose allocation fails, 0 for
\* none.  NewFamilyFromMixedCase appends a record named by the lowercased
\* name, and psz_last_name becomes that record's name (line 268).
RECURSIVE FbLoop(_, _, _, _, _, _)
FbLoop(fonts, i, list, last, allocs, failAt) ==
    IF i > Len(fonts)
    THEN [failed |-> FALSE, list |-> list, allocs |-> allocs]
    ELSE IF StrCaseDiffers(last, fonts[i])
         THEN IF allocs + 1 = failAt
              THEN [failed |-> TRUE, list |-> list, allocs |-> allocs]
              ELSE FbLoop(fonts, i + 1, Append(list, LowercaseDup(fonts[i])),
                          LowercaseDup(fonts[i]), allocs + 1, failAt)
         ELSE FbLoop(fonts, i + 1, list, last, allocs, failAt)

\* if( p_family ) vlc_dictionary_insert( ... ), lines 276-277, inserting
\* whatever the list is.
FbInsert_Always(dict, key, list) == dict \cup { [key |-> key, value |-> list] }

\* if( p_family ) vlc_dictionary_insert( &fs->fallback_map, key, p_family ),
\* lines 276-277.
FbInsert(dict, key, list) ==
    IF list # << >> THEN dict \cup { [key |-> key, value |-> list] } ELSE dict

\* The dictionary's value under the key, << >> (NULL) when there is none.
FbValueForKey(dict, key) ==
    LET hits == { e \in dict : e.key = key }
    IN IF hits = {} THEN << >> ELSE (CHOOSE e \in hits : TRUE).value

\* The whole call.
Fb_Get ==
    \E key \in FbKeys :
        LET cached == FbValueForKey(fallback_map, key)
        IN  /\ fb_key' = key
            /\ IF cached # << >>                              \* lines 222-227
               THEN /\ fb_result' = cached
                    /\ fb_ret' = VLC_SUCCESS
                    /\ fb_allocs' = 0
                    /\ fb_frees' = 0
                    /\ UNCHANGED fallback_map
               ELSE \/ /\ fb_ret' = VLC_EGENERIC     \* FcPatternCreate gave NULL, line 234
                       /\ fb_allocs' = 0
                       /\ fb_frees' = 0
                       /\ UNCHANGED << fallback_map, fb_result >>
                    \/ \* FcConfigSubstitute failed (line 240) or FcFontSort
                       \* gave no font set (line 245): p_family stays NULL
                       /\ fb_ret' = VLC_SUCCESS
                       /\ fb_result' = << >>
                       /\ fb_allocs' = 0
                       /\ fb_frees' = 0
                       /\ fallback_map' = FbInsert(fallback_map, key, << >>)
                    \/ \E fonts \in FontSets, failAt \in 0 .. MaxFontSet :
                        LET r == FbLoop(fonts, 1, << >>, << >>, 0, failAt)
                        IN IF r.failed                        \* lines 259-266
                           THEN /\ fb_ret' = VLC_EGENERIC
                                /\ fb_allocs' = r.allocs
                                /\ fb_frees' = Len(r.list)
                                /\ UNCHANGED << fallback_map, fb_result >>
                           ELSE /\ fb_ret' = VLC_SUCCESS      \* lines 271-280
                                /\ fb_result' = r.list
                                /\ fb_allocs' = r.allocs
                                /\ fb_frees' = 0
                                /\ fallback_map' = FbInsert(fallback_map, key, r.list)
            /\ UNCHANGED << refVars, selVars, vkVars >>

FbInit ==
    /\ fallback_map = {}
    /\ fb_key = "sans"
    /\ fb_ret = NoRet
    /\ fb_result = << >>
    /\ fb_allocs = 0
    /\ fb_frees = 0

FbNext == Fb_Get

(***************************************************************************)
(* vulkan.c: InitPlatform, lines 58-66, with platform_ops, lines 52-56.    *)
(***************************************************************************)

VkObjects == 1 .. NumVk

\* Values of enum vout_window_type a window may have.
WindowTypes == { "VOUT_WINDOW_TYPE_DUMMY", "VOUT_WINDOW_TYPE_XID",
                 "VOUT_WINDOW_TYPE_WAYLAND" }

VOUT_WINDOW_TYPE_WAYLAND == "VOUT_WINDOW_TYPE_WAYLAND"
VK_KHR_WAYLAND_SURFACE_EXTENSION_NAME == "VK_KHR_wayland_surface"
NoExt == "NULL"

\* static const struct vlc_vk_operations platform_ops.
platform_ops == [close |-> "ClosePlatform", create_surface |-> "CreateSurface"]
NoOps == [close |-> "NULL", create_surface |-> "NULL"]

\* InitPlatform with the assignments placed before the type test.
InitPlatform_SetFirst(v) ==
    /\ vk_ret[v] = NoRet
    /\ vk_platform_ext' = [vk_platform_ext EXCEPT ![v] = VK_KHR_WAYLAND_SURFACE_EXTENSION_NAME]
    /\ vk_ops' = [vk_ops EXCEPT ![v] = platform_ops]
    /\ vk_ret' = [vk_ret EXCEPT ![v] =
                    IF vk_window_type[v] # VOUT_WINDOW_TYPE_WAYLAND
                    THEN VLC_EGENERIC ELSE VLC_SUCCESS]
    /\ UNCHANGED << vk_window_type, refVars, selVars, fbVars >>

\* The module loader calls InitPlatform once on a fresh vlc_vk_t.
InitPlatform(v) ==
    /\ vk_ret[v] = NoRet
    /\ IF vk_window_type[v] # VOUT_WINDOW_TYPE_WAYLAND
       THEN /\ vk_ret' = [vk_ret EXCEPT ![v] = VLC_EGENERIC]
            /\ UNCHANGED << vk_platform_ext, vk_ops >>
       ELSE /\ vk_platform_ext' = [vk_platform_ext EXCEPT ![v] =
                                      VK_KHR_WAYLAND_SURFACE_EXTENSION_NAME]
            /\ vk_ops' = [vk_ops EXCEPT ![v] = platform_ops]
            /\ vk_ret' = [vk_ret EXCEPT ![v] = VLC_SUCCESS]
    /\ UNCHANGED << vk_window_type, refVars, selVars, fbVars >>

VkFresh ==
    /\ vk_platform_ext = [v \in VkObjects |-> NoExt]
    /\ vk_ops = [v \in VkObjects |-> NoOps]
    /\ vk_ret = [v \in VkObjects |-> NoRet]

VkInit ==
    /\ vk_window_type \in [VkObjects -> WindowTypes]
    /\ VkFresh

VkIdle ==
    /\ vk_window_type = [v \in VkObjects |-> VOUT_WINDOW_TYPE_WAYLAND]
    /\ VkFresh

VkNext == \E v \in VkObjects : InitPlatform(v)

(***************************************************************************)
(* The specifications.                                                     *)
(***************************************************************************)

RefIdle ==
    /\ win32 = FALSE
    /\ config = NULL
    /\ refs = 0
    /\ lock = Unlocked
    /\ pc = [c \in Clients |-> "idle"]
    /\ ret = [c \in Clients |-> NoRet]
    /\ found = [c \in Clients |-> 0]
    /\ didLoad = [c \in Clients |-> FALSE]
    /\ assertFailed = FALSE
    /\ nHandles = 0
    /\ destroyed = [h \in 1 .. MaxCalls |-> 0]
    /\ nCalls = 0
    /\ loadsSince = 0
    /\ okLoadsSince = 0

InitRef == RefInit /\ SelInit /\ FbInit /\ VkIdle

SpecRef == InitRef /\ [][RefNext]_vars

InitSel == RefIdle /\ SelInit /\ FbInit /\ VkIdle

SpecSel == InitSel /\ [][SelNext]_vars

InitFb == RefIdle /\ SelInit /\ FbInit /\ VkIdle

SpecFb == InitFb /\ [][FbNext]_vars

InitVk == RefIdle /\ SelInit /\ FbInit /\ VkInit

SpecVk == InitVk /\ [][VkNext]_vars

(***************************************************************************)
(* Properties of FontConfig_Prepare / FontConfig_Unprepare.                *)
(***************************************************************************)

\* The clients whose FontConfig_Prepare returned VLC_SUCCESS and that have
\* not called FontConfig_Unprepare since.
Holders == { c \in Clients : pc[c] = "held" }

\* No call is in progress.
Quiescent == \A c \in Clients : pc[c] \in { "idle", "held" }

\* The load runs while its caller owns the mutex, so no two loads overlap.
LoadUnderLock == \A c \in Clients : pc[c] = "p_load" => lock = c

\* Only a caller whose refs++ read zero loads.
LoadOnlyAtZero ==
    \A c \in Clients : (pc[c] = "p_load" \/ didLoad[c]) => found[c] = 0

\* A caller whose refs++ read a positive count returned VLC_SUCCESS and did
\* not load.
PositiveReturnsSuccess ==
    \A c \in Clients :
        (pc[c] = "held" /\ found[c] > 0) => (ret[c] = VLC_SUCCESS /\ ~didLoad[c])

\* C1 as stated: the load is performed only by a caller that finds the
\* count at zero and entirely under the lock, callers that find the count
\* positive return VLC_SUCCESS without loading, and at most one load happens
\* between two consecutive destroys of the handle.
C1_AtMostOneLoadBetweenDestroys ==
    /\ LoadUnderLock
    /\ LoadOnlyAtZero
    /\ PositiveReturnsSuccess
    /\ loadsSince <= 1

\* C1 amended: as C1, but it is the loads that yield a handle of which at
\* most one happens between two consecutive destroys; a load that fails may
\* be followed by another load with no destroy in between.
C1_AtMostOneSuccessfulLoadBetweenDestroys ==
    /\ LoadUnderLock
    /\ LoadOnlyAtZero
    /\ PositiveReturnsSuccess
    /\ okLoadsSince <= 1

\* One caller loaded and holds the handle, another found the count positive
\* and returned VLC_SUCCESS without loading.
C1_Witness ==
    \E a, b \in Clients :
        /\ a # b
        /\ pc[a] = "held" /\ didLoad[a] /\ found[a] = 0
        /\ pc[b] = "held" /\ found[b] > 0 /\ ~didLoad[b]
        /\ okLoadsSince = 1

\* C2: while some successful FontConfig_Prepare is not yet matched by a
\* FontConfig_Unprepare, config is non-null and was not destroyed; and no
\* handle is destroyed more than once.
C2_HandleLiveWhileHeld ==
    /\ (Holders # {}) => (config # NULL /\ destroyed[config] = 0)
    /\ \A h \in DOMAIN destroyed : destroyed[h] <= 1

\* C3: the assertion refs > 0 never fails, and whenever no call is in
\* progress refs equals the number of successful FontConfig_Prepare calls
\* not yet matched by FontConfig_Unprepare (so a call that returned an error
\* left the count as it found it).
C3_RefsCountsHolders ==
    /\ ~assertFailed
    /\ Quiescent => refs = Cardinality(Holders)

\* C4: FontConfig_Prepare returns with the lock released on every path: a
\* client that is not inside a locked region does not own the mutex.
C4_ReturnsUnlocked ==
    \A c \in Clients : pc[c] \in { "idle", "held", "p_ret" } => lock # c

(***************************************************************************)
(* Properties of FontConfig_SelectAmongFamilies.                           *)
(***************************************************************************)

\* C5: the family map holds at most one record per lowercased family name; a
\* call whose first matched family name, lowercased, is already a key
\* returns the existing record and creates none; a record is created only
\* when the lookup finds nothing, and then exactly one.
C5_DedupByLowercaseName ==
    /\ \A e1, e2 \in family_map :
          LowercaseDup(e1.key) = LowercaseDup(e2.key) => e1 = e2
    /\ \A f, g \in DOMAIN p_families :
          p_families[f].psz_name = p_families[g].psz_name => f = g
    /\ (sel_pc = "returned" /\ selLookup = "hit") =>
          /\ Len(p_families) = selLenAtBegin
          /\ sel_ret = VLC_SUCCESS
          /\ pp_result \in 1 .. selLenAtBegin
          /\ p_families[pp_result].psz_name = LowercaseDup(selFirst)
    /\ Len(p_families) # selLenAtBegin =>
          /\ selLookup = "miss"
          /\ Len(p_families) = selLenAtBegin + 1

\* A second call matched a mixed-case family name whose lowercased form was
\* already a key, and returned the existing record.
C5_Witness ==
    /\ sel_pc = "returned"
    /\ selLookup = "hit"
    /\ nSelCalls = 2
    /\ selFirst # LowercaseDup(selFirst)
    /\ pp_result # NULL
    /\ Len(p_families) = 1

\* C9: every pattern a pass of the loop obtained (pat, p_pat: locals of the
\* loop body) has been destroyed exactly once when the pass is over, on
\* every path, the out-of-memory return included.
C9_PatternsDestroyedOnce == \A k \in DOMAIN pats : pats[k] = 1

\* The flags NewFont got for a combination are the combination's.
FlagsOfCombo(a) ==
    /\ a.b_bold = ((a.combo % 2) = 1)
    /\ a.b_italic = (((a.combo \div 2) % 2) = 1)

\* At most one font record per combination, added in the order of the loop.
OnePerCombo ==
    \A j, k \in DOMAIN selAdded : j < k => selAdded[j].combo < selAdded[k].combo

\* The records the call added are the last fonts of their family record.
AddedAreRegistered ==
    selAdded # << >> =>
        LET fonts == p_families[p_family].fonts
            base == Len(fonts) - Len(selAdded)
        IN /\ base >= 0
           /\ \A k \in DOMAIN selAdded :
                 /\ fonts[base + k].b_bold = selAdded[k].b_bold
                 /\ fonts[base + k].b_italic = selAdded[k].b_italic

\* The family returned is the one the fonts were added to.
ReturnsTarget ==
    (sel_pc = "returned" /\ sel_ret = VLC_SUCCESS) =>
        /\ pp_result = p_family
        /\ \A k \in DOMAIN selAdded : selAdded[k].to = pp_result

\* C10 as stated: every font record of a family record comes from a match
\* whose family name, lowercased, is the name of that family record; fonts
\* carry their combination's flags, at most one per combination, and the
\* returned family is the one the fonts were added to.
C10_FontsUnderMatchedFamily ==
    /\ \A f \in DOMAIN p_families : \A k \in DOMAIN p_families[f].fonts :
          LowercaseDup(p_families[f].fonts[k].psz_fontfile.of) = p_families[f].psz_name
    /\ \A k \in DOMAIN selAdded : FlagsOfCombo(selAdded[k])
    /\ OnePerCombo
    /\ AddedAreRegistered
    /\ ReturnsTarget

\* C10 amended: every font record a call adds goes to one family record,
\* the one looked up or created for the first combination whose match names
\* a family (named by that name lowercased), whatever family the matches of
\* the later combinations name; fonts carry their combination's flags, at
\* most one per combination, and the returned family is that record.
C10_FontsUnderFirstMatchedFamily ==
    /\ \A k \in DOMAIN selAdded :
          /\ selAdded[k].to = p_family
          /\ p_families[p_family].psz_name = LowercaseDup(selFirst)
          /\ FlagsOfCombo(selAdded[k])
    /\ OnePerCombo
    /\ AddedAreRegistered
    /\ ReturnsTarget

\* A call returned a family to which it added two fonts, one of them matched
\* under another family name than the record's.
C10_Witness ==
    /\ sel_pc = "returned"
    /\ sel_ret = VLC_SUCCESS
    /\ Len(selAdded) = 2
    /\ pp_result # NULL
    /\ \E k \in DOMAIN p_families[pp_result].fonts :
          LowercaseDup(p_families[pp_result].fonts[k].psz_fontfile.of)
              # p_families[pp_result].psz_name

(***************************************************************************)
(* Properties of FontConfig_GetFallbacksAmongFamilies.                     *)
(***************************************************************************)

NoDuplicateNames(list) ==
    \A j, k \in DOMAIN list : j # k => StrCaseDiffers(list[j], list[k])

\* C7: the fallback list holds no two family records whose names are equal
\* ignoring case, whatever the order of the font set.
C7_NoDuplicateFallbackNames ==
    /\ NoDuplicateNames(fb_result)
    /\ \A e \in fallback_map : NoDuplicateNames(e.value)

FbHasKey(dict, key) == \E e \in dict : e.key = key

\* C8: a call changes the fallback map only when it returns VLC_SUCCESS with
\* a non-empty list for a key that was not in the map, and then adds exactly
\* that entry; a hit returns the cached list, a failed allocation returns
\* VLC_EGENERIC with the partial list freed, no fonts gives VLC_SUCCESS with
\* a null result, and these three leave the map unchanged.
C8_FallbackMapFrame ==
    [][ /\ fallback_map' # fallback_map =>
              /\ fb_ret' = VLC_SUCCESS
              /\ fb_result' # << >>
              /\ ~FbHasKey(fallback_map, fb_key')
              /\ fallback_map' = fallback_map \cup
                                   { [key |-> fb_key', value |-> fb_result'] }
        /\ FbHasKey(fallback_map, fb_key') =>
              /\ fb_ret' = VLC_SUCCESS
              /\ fb_result' = FbValueForKey(fallback_map, fb_key')
              /\ fallback_map' = fallback_map
        /\ fb_ret' = VLC_EGENERIC =>
              /\ fallback_map' = fallback_map
              /\ fb_frees' = fb_allocs'
        /\ (fb_ret' = VLC_SUCCESS /\ fb_result' = << >>) =>
              fallback_map' = fallback_map
      ]_vars

\* Both keys are in the map, the last call inserted its list of two
\* families, and an earlier call's entry is still there.
C8_Witness ==
    /\ Cardinality(fallback_map) = 2
    /\ fb_ret = VLC_SUCCESS
    /\ Len(fb_result) = 2
    /\ [key |-> fb_key, value |-> fb_result] \in fallback_map

(***************************************************************************)
(* Properties of InitPlatform.                                             *)
(***************************************************************************)

\* C6: InitPlatform returns VLC_SUCCESS exactly when the window type is
\* Wayland, and then the platform extension is the Wayland surface extension
\* and the operations are the Wayland ones; otherwise it returns
\* VLC_EGENERIC and the extension and operations of the object are as they
\* were.
C6_InitPlatform ==
    \A v \in VkObjects :
        vk_ret[v] # NoRet =>
            /\ vk_ret[v] \in { VLC_SUCCESS, VLC_EGENERIC }
            /\ (vk_ret[v] = VLC_SUCCESS) = (vk_window_type[v] = VOUT_WINDOW_TYPE_WAYLAND)
            /\ vk_ret[v] = VLC_SUCCESS =>
                  /\ vk_platform_ext[v] = VK_KHR_WAYLAND_SURFACE_EXTENSION_NAME
                  /\ vk_ops[v] = platform_ops
            /\ vk_ret[v] = VLC_EGENERIC =>
                  /\ vk_platform_ext[v] = NoExt
                  /\ vk_ops[v] = NoOps

\* InitPlatform has run on a Wayland window and on another one.
C6_Witness ==
    \E v, w \in VkObjects :
        /\ vk_ret[v] = VLC_SUCCESS
        /\ vk_ret[w] = VLC_EGENERIC
        /\ vk_window_type[w] # VOUT_WINDOW_TYPE_WAYLAND

====
